---- MODULE Spec2Model ----
(***************************************************************************)
(* Model of sgdml/intf/ase_calc.py: the ASE calculator SGDMLCalculator.    *)
(* __init__ loads a model, emits the unit advisory and stores the three    *)
(* conversion factors; calculate converts the positions, calls the         *)
(* predictor once for the baseline and once per Cartesian axis, and        *)
(* assigns self.results.                                                   *)
(*                                                                         *)
(* Numbers are exact rationals <<numerator, denominator>> in lowest terms  *)
(* with a positive denominator; the factors are native Python numbers.     *)
(***************************************************************************)
EXTENDS Integers, Sequences, FiniteSets, TLC

\* ------------------------------------------------------------------ bounds
MaxAtoms == 2

\* ------------------------------------------------------- exact arithmetic
Abs(x) == IF x < 0 THEN -x ELSE x

RECURSIVE GCD(_, _)
GCD(a, b) == IF b = 0 THEN a ELSE GCD(b, a % b)

Zero == <<0, 1>>
One == <<1, 1>>

Rat(n, d) ==
    IF d = 1 THEN <<n, 1>>
    ELSE LET g == GCD(Abs(n), Abs(d))
         IN  IF d < 0 THEN <<-(n \div g), -(d \div g)>>
             ELSE <<n \div g, d \div g>>

FromInt(n) == <<n, 1>>

RNeg(p) == <<-p[1], p[2]>>

RAdd(p, q) ==
    IF p[1] = 0 THEN q
    ELSE IF q[1] = 0 THEN p
    ELSE IF p[2] = q[2] THEN Rat(p[1] + q[1], p[2])
    ELSE LET g == GCD(p[2], q[2])
         IN  Rat(p[1] * (q[2] \div g) + q[1] * (p[2] \div g),
                 (p[2] \div g) * q[2])

RSub(p, q) == RAdd(p, RNeg(q))

RMul(p, q) ==
    IF p[1] = 0 \/ q[1] = 0 THEN Zero
    ELSE IF p[2] = 1 /\ q[2] = 1 THEN <<p[1] * q[1], 1>>
    ELSE LET g1 == GCD(Abs(p[1]), q[2])
             g2 == GCD(Abs(q[1]), p[2])
         IN  <<(p[1] \div g1) * (q[1] \div g2),
               (p[2] \div g2) * (q[2] \div g1)>>

RInv(p) == IF p[1] < 0 THEN <<-p[2], -p[1]>> ELSE <<p[2], p[1]>>

RDiv(p, q) == RMul(p, RInv(q))

RLess(p, q) == RSub(p, q)[1] < 0

RECURSIVE RSum(_)
RSum(s) == IF s = <<>> THEN Zero ELSE RAdd(s[1], RSum(Tail(s)))

\* ------------------------------------------------------------ numpy views
\* r.ravel(): the N x 3 array as a flat sequence, atom by atom
Ravel(arr) ==
    [k \in 1..(3 * Len(arr)) |-> arr[((k - 1) \div 3) + 1][((k - 1) % 3) + 1]]

\* faulty variant: f.reshape(-1, 3) filled column-major (rows no longer atoms)
ReshapeColumnMajor(flat) ==
    LET n == Len(flat) \div 3
    IN  [a \in 1..n |-> <<flat[a], flat[n + a], flat[2 * n + a]>>]

\* f.reshape(-1, 3): consecutive triples become rows
Reshape(flat) ==
    [a \in 1..(Len(flat) \div 3) |->
        <<flat[3 * (a - 1) + 1], flat[3 * (a - 1) + 2], flat[3 * (a - 1) + 3]>>]

\* array * scalar
ScaleArr(arr, c) == [a \in 1..Len(arr) |-> [k \in 1..3 |-> RMul(arr[a][k], c)]]
ScaleVec(v, c) == [k \in 1..Len(v) |-> RMul(v[k], c)]

\* np.array(atoms.get_positions()): framework positions as numbers
AsArray(pos) == [a \in 1..Len(pos) |-> [k \in 1..3 |-> FromInt(pos[a][k])]]

\* faulty variant: np.ones((3, 3))
Ones33 == <<<<One, One, One>>, <<One, One, One>>, <<One, One, One>>>>

\* np.zeros((3, 3))
Zeros33 == <<<<Zero, Zero, Zero>>, <<Zero, Zero, Zero>>, <<Zero, Zero, Zero>>>>

\* the literal 1e-4 used for the perturbation and in the stress quotient
h == <<1, 10000>>

\* range(3)
NAxes == 3

\* faulty variant: the step is subtracted
PerturbBackward(arr, i) ==
    [a \in 1..Len(arr) |->
        [k \in 1..3 |-> IF k = i + 1 THEN RSub(arr[a][k], h) ELSE arr[a][k]]]

\* r_perturbed = r.copy(); r_perturbed[:, i] += 1e-4
Perturb(arr, i) ==
    [a \in 1..Len(arr) |->
        [k \in 1..3 |-> IF k = i + 1 THEN RAdd(arr[a][k], h) ELSE arr[a][k]]]

\* ------------------------------------------------------------- predictor
\* GDMLPredict lives outside this file; it is a deterministic function of
\* its flat input that either returns (energy, 3N forces) or raises.
PredKinds == {"zero", "sqx", "lin"}

Limit == One

Predictors ==
    {[kind |-> k, limited |-> FALSE] : k \in PredKinds}
        \cup {[kind |-> "lin", limited |-> TRUE]}

NoPredictor == [kind |-> "none", limited |-> FALSE]

PredictFails(p, flat) ==
    p.limited /\ (Len(flat) = 0 \/ \E k \in 1..Len(flat) : RLess(Limit, flat[k]))

PredictErr(flat) == [kind |-> "PredictorError", arg |-> flat]

PredictE(p, flat) ==
    CASE p.kind = "sqx" ->
            RSum([a \in 1..(Len(flat) \div 3) |->
                    RMul(flat[3 * (a - 1) + 1], flat[3 * (a - 1) + 1])])
      [] p.kind = "lin" ->
            RSum([k \in 1..Len(flat) |-> RMul(FromInt(k), flat[k])])
      [] OTHER -> Zero

PredictF(p, flat) ==
    CASE p.kind = "sqx" ->
            [k \in 1..Len(flat) |->
                IF k % 3 = 1 THEN RMul(FromInt(-2), flat[k]) ELSE Zero]
      [] p.kind = "lin" -> [k \in 1..Len(flat) |-> FromInt(-k)]
      [] OTHER -> [k \in 1..Len(flat) |-> Zero]

\* ----------------------------------------------------------------- inputs
Points == {<<0, 0, 0>>, <<1, 0, 0>>, <<0, -1, 1>>}

Positions == UNION {[1..n -> Points] : n \in 0..MaxAtoms}

\* <<E_to_eV, F_to_eV_Ang>>
Factors == {<<1, 1>>, <<2, 1>>, <<1, 2>>, <<-1, 1>>, <<0, 1>>}
ModelPaths == {"model.npz", "missing.npz"}

\* ------------------------------------------------------------------ state
VARIABLES
    pc,            \* "new", "dead" (constructor raised), "idle", "loop"
    E_to_eV, F_to_eV_Ang, Ang_to_R,   \* self.E_to_eV, ...
    gdml_predict,  \* self.gdml_predict
    advisory,      \* number of log.warning calls
    atoms,         \* self.atoms
    r, e, forces, stress, i,          \* locals of calculate
    results,       \* self.results
    raised,        \* exception that left the last operation
    calls,         \* inputs of the predictor calls of the current calculate
    lastPos        \* positions of the last calculate that returned

vars == <<pc, E_to_eV, F_to_eV_Ang, Ang_to_R, gdml_predict, advisory, atoms,
          r, e, forces, stress, i, results, raised, calls, lastPos>>

NoError == [kind |-> "None"]
EmptyDict == [k \in {} |-> Zero]
NoPos == <<<<9, 9, 9>>>>

Init ==
    /\ pc = "new"
    /\ E_to_eV = Zero /\ F_to_eV_Ang = Zero /\ Ang_to_R = Zero
    /\ gdml_predict = NoPredictor
    /\ advisory = 0
    /\ atoms = <<>>
    /\ r = <<>> /\ e = Zero /\ forces = <<>> /\ stress = <<>> /\ i = 0
    /\ results = EmptyDict
    /\ raised = NoError
    /\ calls = <<>>
    /\ lastPos = NoPos

\* ------------------------------------------------------------ constructor
\* faulty variant: the quotient taken the wrong way round
LengthFactorInverted(F, E) == RDiv(FromInt(E), FromInt(F))

\* F_to_eV_Ang / E_to_eV on native Python numbers
LengthFactor(F, E) == RDiv(FromInt(F), FromInt(E))

\* faulty variant: the constructor rejects every non-positive energy factor
ConstructValidating ==
    /\ pc = "new"
    /\ \E path \in ModelPaths, fac \in Factors, p \in Predictors :
        LET E == fac[1]
            F == fac[2]
        IN
        IF path = "missing.npz"
        THEN /\ pc' = "dead"
             /\ raised' = [kind |-> "FileNotFoundError"]
             /\ UNCHANGED <<E_to_eV, F_to_eV_Ang, Ang_to_R, gdml_predict,
                            advisory>>
        ELSE /\ gdml_predict' = p
             /\ advisory' = advisory + 1
             /\ E_to_eV' = FromInt(E)
             /\ IF E <= 0
                THEN /\ pc' = "dead"
                     /\ raised' = [kind |-> IF E = 0 THEN "ZeroDivisionError"
                                            ELSE "ValueError"]
                     /\ UNCHANGED <<Ang_to_R, F_to_eV_Ang>>
                ELSE /\ Ang_to_R' = LengthFactor(F, E)
                     /\ F_to_eV_Ang' = FromInt(F)
                     /\ pc' = "idle"
                     /\ raised' = NoError
    /\ UNCHANGED <<atoms, r, e, forces, stress, i, results, calls, lastPos>>

\* SGDMLCalculator.__init__(model_path, E_to_eV, F_to_eV_Ang)
Construct ==
    /\ pc = "new"
    /\ \E path \in ModelPaths, fac \in Factors, p \in Predictors :
        LET E == fac[1]
            F == fac[2]
        IN
        IF path = "missing.npz"
        THEN \* np.load raises
             /\ pc' = "dead"
             /\ raised' = [kind |-> "FileNotFoundError"]
             /\ UNCHANGED <<E_to_eV, F_to_eV_Ang, Ang_to_R, gdml_predict,
                            advisory>>
        ELSE /\ gdml_predict' = p
             /\ advisory' = advisory + 1
             /\ E_to_eV' = FromInt(E)
             /\ IF E = 0
                THEN \* the division of line 78 raises
                     /\ pc' = "dead"
                     /\ raised' = [kind |-> "ZeroDivisionError"]
                     /\ UNCHANGED <<Ang_to_R, F_to_eV_Ang>>
                ELSE /\ Ang_to_R' = LengthFactor(F, E)
                     /\ F_to_eV_Ang' = FromInt(F)
                     /\ pc' = "idle"
                     /\ raised' = NoError
    /\ UNCHANGED <<atoms, r, e, forces, stress, i, results, calls, lastPos>>

\* --------------------------------------------------------------- calculate
\* the locals of calculate are gone once it returns or raises
DropLocals ==
    /\ r' = <<>> /\ e' = Zero /\ forces' = <<>> /\ stress' = <<>> /\ i' = 0

\* calculate(atoms) up to the loop: lines 82-94, with the baseline call
Calculate ==
    /\ pc = "idle"
    /\ \E pos \in Positions :
        LET arr == ScaleArr(AsArray(pos), Ang_to_R)
            inp == Ravel(arr)
        IN  /\ atoms' = pos
            /\ calls' = <<inp>>
            /\ IF PredictFails(gdml_predict, inp)
               THEN /\ raised' = PredictErr(inp)
                    /\ pc' = "idle"
                    /\ DropLocals
               ELSE /\ raised' = NoError
                    /\ r' = arr
                    /\ e' = RMul(PredictE(gdml_predict, inp), E_to_eV)
                    /\ forces' = Reshape(ScaleVec(PredictF(gdml_predict, inp),
                                                  F_to_eV_Ang))
                    /\ stress' = Zeros33
                    /\ i' = 0
                    /\ pc' = "loop"
    /\ UNCHANGED <<E_to_eV, F_to_eV_Ang, Ang_to_R, gdml_predict, advisory,
                   results, lastPos>>

\* faulty variant: r_perturbed = r without the copy, so r itself is perturbed
AxisBodyAlias(rr, ee, ss, ii) ==
    LET r_perturbed == Perturb(rr, ii)
        inp == Ravel(r_perturbed)
    IN  IF PredictFails(gdml_predict, inp)
        THEN [ok |-> FALSE, r |-> r_perturbed, input |-> inp, stress |-> ss]
        ELSE LET e_perturbed == RMul(PredictE(gdml_predict, inp), E_to_eV)
             IN  [ok |-> TRUE, r |-> r_perturbed, input |-> inp,
                  stress |-> [ss EXCEPT ![ii + 1][ii + 1] =
                      RDiv(RSub(e_perturbed, ee), RMul(h, Ang_to_R))]]

\* faulty variant: the baseline energy is read from the previous result bundle
AxisBodyStale(rr, ee, ss, ii) ==
    LET r_perturbed == Perturb(rr, ii)
        inp == Ravel(r_perturbed)
        e0 == IF DOMAIN results = {} THEN ee ELSE results.energy
    IN  IF PredictFails(gdml_predict, inp)
        THEN [ok |-> FALSE, r |-> rr, input |-> inp, stress |-> ss]
        ELSE LET e_perturbed == RMul(PredictE(gdml_predict, inp), E_to_eV)
             IN  [ok |-> TRUE, r |-> rr, input |-> inp,
                  stress |-> [ss EXCEPT ![ii + 1][ii + 1] =
                      RDiv(RSub(e_perturbed, e0), RMul(h, Ang_to_R))]]

\* one pass of the loop body, lines 96-100, on explicit locals
AxisBody(rr, ee, ss, ii) ==
    LET r_perturbed == Perturb(rr, ii)
        inp == Ravel(r_perturbed)
    IN  IF PredictFails(gdml_predict, inp)
        THEN [ok |-> FALSE, r |-> rr, input |-> inp, stress |-> ss]
        ELSE LET e_perturbed == RMul(PredictE(gdml_predict, inp), E_to_eV)
             IN  [ok |-> TRUE, r |-> rr, input |-> inp,
                  stress |-> [ss EXCEPT ![ii + 1][ii + 1] =
                      RDiv(RSub(e_perturbed, ee), RMul(h, Ang_to_R))]]

\* the whole loop run over the axes in a given order
RECURSIVE LoopOver(_, _, _, _)
LoopOver(order, rr, ee, ss) ==
    IF order = <<>>
    THEN [ok |-> TRUE, r |-> rr, stress |-> ss]
    ELSE LET st == AxisBody(rr, ee, ss, Head(order))
         IN  IF st.ok
             THEN LoopOver(Tail(order), st.r, ee, st.stress)
             ELSE [ok |-> FALSE, r |-> st.r, stress |-> st.stress]

\* faulty variant: a failed perturbation call is swallowed and the loop goes on
CalcAxisSwallow ==
    /\ pc = "loop"
    /\ i < NAxes
    /\ LET st == AxisBody(r, e, stress, i)
       IN  /\ calls' = Append(calls, st.input)
           /\ r' = st.r
           /\ stress' = st.stress
           /\ i' = i + 1
           /\ UNCHANGED <<pc, raised, e, forces>>
    /\ UNCHANGED <<E_to_eV, F_to_eV_Ang, Ang_to_R, gdml_predict, advisory,
                   atoms, results, lastPos>>

\* faulty variant: the axes are visited z, y, x
CalcAxisReversed ==
    /\ pc = "loop"
    /\ i < NAxes
    /\ LET st == AxisBody(r, e, stress, NAxes - 1 - i)
       IN  /\ calls' = Append(calls, st.input)
           /\ IF st.ok
              THEN /\ r' = st.r
                   /\ stress' = st.stress
                   /\ i' = i + 1
                   /\ UNCHANGED <<pc, raised, e, forces>>
              ELSE /\ raised' = PredictErr(st.input)
                   /\ pc' = "idle"
                   /\ DropLocals
    /\ UNCHANGED <<E_to_eV, F_to_eV_Ang, Ang_to_R, gdml_predict, advisory,
                   atoms, results, lastPos>>

\* one iteration of "for i in range(3)"
CalcAxis ==
    /\ pc = "loop"
    /\ i < NAxes
    /\ LET st == AxisBody(r, e, stress, i)
       IN  /\ calls' = Append(calls, st.input)
           /\ IF st.ok
              THEN /\ r' = st.r
                   /\ stress' = st.stress
                   /\ i' = i + 1
                   /\ UNCHANGED <<pc, raised, e, forces>>
              ELSE /\ raised' = PredictErr(st.input)
                   /\ pc' = "idle"
                   /\ DropLocals
    /\ UNCHANGED <<E_to_eV, F_to_eV_Ang, Ang_to_R, gdml_predict, advisory,
                   atoms, results, lastPos>>

\* faulty variant: entries already present in self.results are kept
CalcReturnKeep ==
    /\ pc = "loop"
    /\ i = NAxes
    /\ results' = IF DOMAIN results = {}
                  THEN [energy |-> e, forces |-> forces, stress |-> stress]
                  ELSE [energy |-> e, forces |-> results.forces,
                        stress |-> stress]
    /\ lastPos' = atoms
    /\ pc' = "idle"
    /\ DropLocals
    /\ UNCHANGED <<E_to_eV, F_to_eV_Ang, Ang_to_R, gdml_predict, advisory,
                   atoms, raised, calls>>

\* self.results = {'energy': e, 'forces': forces, 'stress': stress}
CalcReturn ==
    /\ pc = "loop"
    /\ i = NAxes
    /\ results' = [energy |-> e, forces |-> forces, stress |-> stress]
    /\ lastPos' = atoms
    /\ pc' = "idle"
    /\ DropLocals
    /\ UNCHANGED <<E_to_eV, F_to_eV_Ang, Ang_to_R, gdml_predict, advisory,
                   atoms, raised, calls>>

Next == Construct \/ Calculate \/ CalcAxis \/ CalcReturn

Spec == Init /\ [][Next]_vars

\* ------------------------------------------------------------- properties
BundleKeys == {"energy", "forces", "stress"}

\* the last calculate returned normally (its positions are lastPos)
Returned == pc = "idle" /\ raised = NoError /\ calls # <<>>

\* C1: when a predictor call of calculate fails (baseline or any axis),
\* calculate raises exactly the predictor's error, that failing call is the
\* last call of the evaluation (nothing after it, nothing repeated), and
\* self.results is left as it was before the call.
C1_FailureAborts ==
    [][ /\ \A k \in 1..Len(calls') :
              PredictFails(gdml_predict', calls'[k]) =>
                  /\ k = Len(calls')
                  /\ pc' = "idle"
                  /\ raised' = PredictErr(calls'[k])
        /\ (pc \in {"idle", "loop"} /\ raised' # NoError) =>
              /\ results' = results
              /\ pc' = "idle"
              /\ Len(calls') = (IF pc = "idle" THEN 1 ELSE Len(calls) + 1)
              /\ raised' = PredictErr(calls'[Len(calls')])
              /\ \A k \in 1..(Len(calls') - 1) :
                     calls'[k] # calls'[Len(calls')] ]_vars

\* a y-axis perturbation failed after an earlier calculate had filled results
C1_Witness ==
    /\ pc = "idle"
    /\ raised.kind = "PredictorError"
    /\ Len(calls) = 3
    /\ DOMAIN results = BundleKeys
    /\ lastPos # atoms

AxisOrders ==
    {o \in [1..3 -> 0..2] : \A a, b \in 1..3 : o[a] = o[b] => a = b}

\* C2: every perturbation call gets the unperturbed model-unit positions
\* with one axis shifted, and running the loop body over the axes in any of
\* the six orders gives the stress matrix the code computed.
C2_AxisIndependence ==
    (pc = "loop" /\ i = NAxes) =>
        LET base == ScaleArr(AsArray(atoms), Ang_to_R)
        IN  /\ r = base
            /\ \A k \in 0..2 :
                   calls[k + 2] =
                       Ravel([a \in 1..Len(base) |->
                                [c \in 1..3 |-> IF c = k + 1
                                                THEN RAdd(base[a][c], h)
                                                ELSE base[a][c]]])
            /\ \A o \in AxisOrders :
                   LET res == LoopOver(o, base, e, Zeros33)
                   IN  res.ok /\ res.stress = stress

\* the loop has finished with three different diagonal entries
C2_Witness ==
    /\ pc = "loop" /\ i = NAxes
    /\ stress[1][1] # stress[2][2]
    /\ stress[2][2] # stress[3][3]
    /\ stress[1][1] # stress[3][3]

\* C3: after a successful calculate on N atoms the forces have N rows of 3
\* components in the atom order of the input, and the stress is 3x3 with
\* zero off-diagonal entries.
C3_Shape ==
    Returned =>
        LET n == Len(lastPos)
            fraw == PredictF(gdml_predict,
                             Ravel(ScaleArr(AsArray(lastPos), Ang_to_R)))
        IN  /\ Len(fraw) = 3 * n
            /\ Len(results.forces) = n
            /\ \A a \in 1..n :
                   /\ Len(results.forces[a]) = 3
                   /\ \A c \in 1..3 :
                          results.forces[a][c] =
                              RMul(fraw[3 * (a - 1) + c], F_to_eV_Ang)
            /\ Len(results.stress) = 3
            /\ \A a \in 1..3 :
                   /\ Len(results.stress[a]) = 3
                   /\ \A c \in 1..3 : a # c => results.stress[a][c] = Zero

\* two atoms, distinct force components, a non-zero diagonal
C3_Witness ==
    /\ Returned
    /\ DOMAIN results = BundleKeys
    /\ Len(results.forces) = 2
    /\ results.forces[1] # results.forces[2]
    /\ results.stress[1][1] # Zero

\* C4: a calculate on the positions of the previous successful calculate
\* computes the same energy, forces and stress again, whatever happened
\* before.
C4_Determinism ==
    (pc = "loop" /\ i = NAxes /\ lastPos = atoms) =>
        results = [energy |-> e, forces |-> forces, stress |-> stress]

\* the repeated call has finished its loop; an earlier call on other
\* positions is not distinguishable from it by the energy alone
C4_Witness ==
    /\ pc = "loop" /\ i = NAxes /\ lastPos = atoms
    /\ DOMAIN results = BundleKeys
    /\ e # Zero
    /\ stress[1][1] # Zero

\* C5: with all factors 1 the baseline call receives the caller's
\* positions as they are, and energy and forces are the predictor's
\* baseline outputs, the forces cut into rows of 3 in order.
C5_UnitIdentity ==
    (pc \in {"idle", "loop"} /\ E_to_eV = One /\ F_to_eV_Ang = One) =>
        /\ Ang_to_R = One
        /\ calls # <<>> => calls[1] = Ravel(AsArray(atoms))
        /\ Returned =>
              LET raw == Ravel(AsArray(lastPos))
              IN  /\ results.energy = PredictE(gdml_predict, raw)
                  /\ Len(results.forces) = Len(lastPos)
                  /\ \A a \in 1..Len(lastPos) : \A c \in 1..3 :
                         results.forces[a][c] =
                             PredictF(gdml_predict, raw)[3 * (a - 1) + c]

\* unit factors, two atoms, a predictor with distinct force components
C5_Witness ==
    /\ Returned
    /\ E_to_eV = One /\ F_to_eV_Ang = One
    /\ DOMAIN results = BundleKeys
    /\ gdml_predict.kind = "lin"
    /\ Len(results.forces) = 2
    /\ results.energy # Zero

\* C6: two atoms, unit factors, energy = sum of squared x: the xx entry is
\* 2*(x1 + x2) plus exactly 2*h, the yy and zz entries are zero.
C6_Quadratic ==
    (/\ Returned
     /\ gdml_predict.kind = "sqx"
     /\ E_to_eV = One /\ F_to_eV_Ang = One
     /\ Len(lastPos) = 2) =>
        /\ RSub(results.stress[1][1],
                FromInt(2 * (lastPos[1][1] + lastPos[2][1])))
               = RMul(FromInt(2), h)
        /\ results.stress[2][2] = Zero
        /\ results.stress[3][3] = Zero

\* the scenario with x1 = 1 and x2 = 0
C6_Witness ==
    /\ Returned
    /\ DOMAIN results = BundleKeys
    /\ gdml_predict.kind = "sqx"
    /\ E_to_eV = One /\ F_to_eV_Ang = One
    /\ Len(lastPos) = 2
    /\ lastPos[1][1] = 1 /\ lastPos[2][1] = 0

\* C7: self.results is empty or has exactly the keys energy, forces and
\* stress, and then all three are the values of the most recent successful
\* calculate, none left from an earlier one.
C7_OverwrittenInFull ==
    /\ DOMAIN results \in {{}, BundleKeys}
    /\ DOMAIN results # {} =>
          LET base == ScaleArr(AsArray(lastPos), Ang_to_R)
              e0 == RMul(PredictE(gdml_predict, Ravel(base)), E_to_eV)
              f0 == PredictF(gdml_predict, Ravel(base))
          IN  /\ results.energy = e0
              /\ results.forces =
                     [a \in 1..Len(lastPos) |->
                        [c \in 1..3 |->
                           RMul(f0[3 * (a - 1) + c], F_to_eV_Ang)]]
              /\ results.stress = LoopOver(<<0, 1, 2>>, base, e0, Zeros33).stress

\* a second successful calculate ran on a configuration of another size
C7_Witness ==
    /\ pc = "loop" /\ i = NAxes
    /\ DOMAIN results = BundleKeys
    /\ Len(results.forces) # Len(atoms)
    /\ results.energy # e

\* C8: the predictor calls of one calculate are the baseline, then x, then
\* y, then z; never more than four; exactly four once calculate returned.
C8_CallSequence ==
    LET base == ScaleArr(AsArray(atoms), Ang_to_R)
    IN  /\ Len(calls) <= 4
        /\ calls # <<>> => calls[1] = Ravel(base)
        /\ \A k \in 2..Len(calls) : calls[k] = Ravel(Perturb(base, k - 2))
        /\ pc = "loop" => Len(calls) = i + 1
        /\ Returned => Len(calls) = 4

\* calculate returned after its four calls on a non-empty configuration
C8_Witness ==
    /\ pc = "idle" /\ raised = NoError
    /\ Len(calls) = 4
    /\ Len(atoms) = 2
    /\ lastPos = atoms

\* C9: the length factor is force factor / energy factor, and
\* S[i][i] = (e_i * E - e0 * E) / (h * length factor), where e_i is the
\* predictor's energy at the model-unit positions with axis i raised by h.
C9_StressFormula ==
    Returned =>
        LET L == RDiv(F_to_eV_Ang, E_to_eV)
            base == [a \in 1..Len(lastPos) |->
                       [c \in 1..3 |-> RMul(FromInt(lastPos[a][c]), L)]]
            shifted(k) == [a \in 1..Len(base) |->
                             [c \in 1..3 |-> IF c = k THEN RAdd(base[a][c], h)
                                             ELSE base[a][c]]]
            e0 == PredictE(gdml_predict, Ravel(base))
        IN  /\ Ang_to_R = L
            /\ \A k \in 1..3 :
                   /\ results.stress[k][k] =
                          RDiv(RSub(RMul(PredictE(gdml_predict,
                                                  Ravel(shifted(k))), E_to_eV),
                                    RMul(e0, E_to_eV)),
                               RMul(h, L))
                   /\ calls[k + 1] = Ravel(shifted(k))

\* energy factor 2, force factor 1, a non-zero stress entry
C9_Witness ==
    /\ Returned
    /\ DOMAIN results = BundleKeys
    /\ E_to_eV = FromInt(2) /\ F_to_eV_Ang = One
    /\ Ang_to_R = <<1, 2>>
    /\ results.stress[1][1] # Zero

====
